---- MODULE Spec2Model ----
(***************************************************************************)
(* A model of find_nearest_ntp_servers8.py: the NTP server monitor.        *)
(*                                                                         *)
(* The main loop (main) polls every configured server through a thread     *)
(* pool (get_ntp_data / query_ntp_server), each successful query widens    *)
(* the per-server running bounds (ServerStats.update), the sorted snapshot *)
(* is drawn as a table (draw_table) and one key is read and dispatched per *)
(* iteration; 'h' and 'd' open the help page and the detail page.          *)
(*                                                                         *)
(* Floats are modelled by small integers; float('inf') and float('-inf')   *)
(* by PosInf and NegInf, which lie outside every sample range.  The clock  *)
(* is an input: the refresh test of main, current_time - last_update >= 5, *)
(* is drawn from BOOLEAN at every iteration.                               *)
(***************************************************************************)
EXTENDS Integers, Sequences, FiniteSets, TLC

VARIABLES
    NTP_SERVERS,      \* the configured server list (fixed after start)
    height,           \* terminal height reported by stdscr.getmaxyx()
    executor,         \* the ThreadPoolExecutor of get_ntp_data: its max_workers
    server_stats,     \* server -> ServerStats (module-level dict)
    samples,          \* history: server -> metric -> set of values passed to update
    pc,               \* control position of the main thread
    data,             \* main's data: the last snapshot
    current_scheme,   \* main's current_scheme
    selected_row,     \* main's selected_row
    key,              \* the key getch returned, until it is dispatched
    server_data,      \* display_detailed_info's argument while it runs, else None
    worker,           \* pool: index -> "idle" | "queued" | "running" | "done"
    results,          \* poll cycle: index -> result of query_ntp_server
    frame,            \* poll cycle: index -> the update call in progress, if any
    update_calls,     \* history: server -> calls of update in the current cycle
    c_presses         \* history: number of 'c' keys dispatched by main

vars == <<NTP_SERVERS, height, executor, server_stats, samples, pc, data, current_scheme,
          selected_row, key, server_data, worker, results, frame, update_calls, c_presses>>

\* Groups of variables, for the UNCHANGED clauses.
config == <<NTP_SERVERS, height, executor>>
tracker == <<server_stats, samples, update_calls>>
pool == <<worker, results, frame>>
ui == <<current_scheme, selected_row, c_presses, server_data>>

(***************************************************************************)
(* Bounds of the model.                                                    *)
(***************************************************************************)
NumServers == 2
MaxRtt == 2
NumResponses == 2
TermHeight == 24
MaxPresses == 6
MaxStatRtt == 4
MaxUpdates == 4
NumPoolServers == 4
PoolThreads == 2
NumSmallServers == 3
MaxSmallHeight == 5
NumDetailServers == 3

(***************************************************************************)
(* Program constants.                                                      *)
(***************************************************************************)
PosInf == 1000
NegInf == -1000
max_workers == 20

ServerPool == <<"pool.ntp.org", "time.google.com", "time.cloudflare.com",
                "time.apple.com", "time.windows.com", "time.nist.gov",
                "ntp.ubuntu.com", "amazon.pool.ntp.org", "time.facebook.com",
                "ntp1.hetzner.de", "ntp.ripe.net", "ptbtime1.ptb.de", "ntp.se",
                "time.fu-berlin.de", "ntp.tuxfamily.net">>

COLOR_SCHEMES == <<"Light", "Solarized Light", "Solarized Dark", "Dark", "Blue">>

\* A field that may be None holds None or Some(v); Val reads the v.
None == <<>>
Some(v) == <<v>>
Val(o) == o[1]

Metrics == {"rtt", "offset", "delay", "dispersion", "stratum"}

\* What client.request can return: the fields of an ntplib response the program reads.
Response(i) ==
    [offset |-> i - 2, root_delay |-> i, root_dispersion |-> NumResponses + 1 - i,
     stratum |-> i + 1, tx_time |-> 10 + i]

Responses == {Response(i) : i \in 1..NumResponses}

Rtts == 1..MaxRtt

\* Keys getch can return; NoKey is the -1 of a 100 ms timeout, "x" any other key.
NoKey == "none"
Keys == {"q", "c", "h", "d", "UP", "DOWN", "x"}

PyMin(a, b) == IF b < a THEN b ELSE a
PyMax(a, b) == IF b > a THEN b ELSE a

(***************************************************************************)
(* class ServerStats                                                       *)
(***************************************************************************)
ServerStats ==
    [rtt_min |-> PosInf, rtt_max |-> NegInf,
     offset_min |-> PosInf, offset_max |-> NegInf,
     delay_min |-> PosInf, delay_max |-> NegInf,
     dispersion_min |-> PosInf, dispersion_max |-> NegInf,
     stratum_min |-> PosInf, stratum_max |-> NegInf]

\* update with the rtt minimum overwritten by the latest sample.
update_overwrites_min(self, rtt, offset, delay, dispersion, stratum) ==
    [rtt_min |-> rtt, rtt_max |-> PyMax(self.rtt_max, rtt),
     offset_min |-> PyMin(self.offset_min, offset),
     offset_max |-> PyMax(self.offset_max, offset),
     delay_min |-> PyMin(self.delay_min, delay),
     delay_max |-> PyMax(self.delay_max, delay),
     dispersion_min |-> PyMin(self.dispersion_min, dispersion),
     dispersion_max |-> PyMax(self.dispersion_max, dispersion),
     stratum_min |-> PyMin(self.stratum_min, stratum),
     stratum_max |-> PyMax(self.stratum_max, stratum)]

update(self, rtt, offset, delay, dispersion, stratum) ==
    [rtt_min |-> PyMin(self.rtt_min, rtt), rtt_max |-> PyMax(self.rtt_max, rtt),
     offset_min |-> PyMin(self.offset_min, offset),
     offset_max |-> PyMax(self.offset_max, offset),
     delay_min |-> PyMin(self.delay_min, delay),
     delay_max |-> PyMax(self.delay_max, delay),
     dispersion_min |-> PyMin(self.dispersion_min, dispersion),
     dispersion_max |-> PyMax(self.dispersion_max, dispersion),
     stratum_min |-> PyMin(self.stratum_min, stratum),
     stratum_max |-> PyMax(self.stratum_max, stratum)]

\* The attributes of a ServerStats object in the order update assigns them.
Fields == <<"rtt_min", "rtt_max", "offset_min", "offset_max", "delay_min", "delay_max",
            "dispersion_min", "dispersion_max", "stratum_min", "stratum_max">>

\* A worker's call of update: its arguments and how many attributes it has
\* assigned so far; NoFrame when the worker is not inside update.
NoFrame == [active |-> FALSE, rtt |-> 0, response |-> Response(1), written |-> 0]
CallFrame(rtt, response) ==
    [active |-> TRUE, rtt |-> rtt, response |-> response, written |-> 0]

Servers == {NTP_SERVERS[i] : i \in DOMAIN NTP_SERVERS}

(***************************************************************************)
(* query_ntp_server: the two ways a query returns.                         *)
(***************************************************************************)
SuccessResult(server, rtt, response) ==
    [server |-> server, rtt |-> rtt, offset |-> Some(response.offset),
     ntp_time |-> Some([utc |-> response.tx_time]),
     root_delay |-> Some(response.root_delay),
     root_dispersion |-> Some(response.root_dispersion),
     stratum |-> Some(response.stratum), response |-> Some(response)]

\* The except branch returning rtt 0 instead of float('inf').
FailureResult_zero_rtt(server) ==
    [server |-> server, rtt |-> 0, offset |-> None, ntp_time |-> None,
     root_delay |-> None, root_dispersion |-> None, stratum |-> None,
     response |-> None]

FailureResult(server) ==
    [server |-> server, rtt |-> PosInf, offset |-> None, ntp_time |-> None,
     root_delay |-> None, root_dispersion |-> None, stratum |-> None,
     response |-> None]

(***************************************************************************)
(* sorted(results, key=lambda x: x[1]): a stable sort by rtt.              *)
(***************************************************************************)
\* An insertion that puts x before the entries of equal rtt.
RECURSIVE InsertByRtt_before_equal(_, _)
InsertByRtt_before_equal(x, s) ==
    IF s = <<>> THEN <<x>>
    ELSE IF x.rtt <= Head(s).rtt THEN <<x>> \o s
    ELSE <<Head(s)>> \o InsertByRtt_before_equal(x, Tail(s))

RECURSIVE InsertByRtt(_, _)
InsertByRtt(x, s) ==
    IF s = <<>> THEN <<x>>
    ELSE IF x.rtt < Head(s).rtt THEN <<x>> \o s
    ELSE <<Head(s)>> \o InsertByRtt(x, Tail(s))

\* sorted replaced by list(): the results stay in server-list order.
sorted_unsorted(s) == s

RECURSIVE sorted(_)
sorted(s) ==
    IF s = <<>> THEN <<>>
    ELSE InsertByRtt(s[Len(s)], sorted(SubSeq(s, 1, Len(s) - 1)))

(***************************************************************************)
(* draw_table: what one call puts on the screen.                           *)
(***************************************************************************)
\* data[:k] of Python, for any integer k.
PySliceTo(s, k) ==
    SubSeq(s, 1, IF k >= 0 THEN PyMin(k, Len(s)) ELSE PyMax(0, Len(s) + k))

\* The text of one table row: the current values with the stored bounds, or the
\* fixed placeholders.
TableRow(entry, i, stats, sel) ==
    IF entry.rtt # PosInf
    THEN [line |-> i, server |-> entry.server, selected |-> (i - 1 = sel),
          text |-> "stats",
          rtt |-> <<entry.rtt, stats.rtt_min, stats.rtt_max>>,
          offset |-> <<Val(entry.offset), stats.offset_min, stats.offset_max>>,
          ntp_time |-> Val(entry.ntp_time).utc,
          delay |-> <<Val(entry.root_delay), stats.delay_min, stats.delay_max>>,
          dispersion |-> <<Val(entry.root_dispersion), stats.dispersion_min,
                           stats.dispersion_max>>,
          stratum |-> <<Val(entry.stratum), stats.stratum_min, stats.stratum_max>>]
    ELSE [line |-> i, server |-> entry.server, selected |-> (i - 1 = sel),
          text |-> "Timeout"]

\* The rows draw_table writes for snapshot d on a terminal of h lines.
draw_table(d, h, sel) ==
    LET shown == PySliceTo(d, h - 3)
    IN  [i \in 1..Len(shown) |->
            TableRow(shown[i], i, server_stats[shown[i].server], sel)]

\* stdscr.addstr(y, ...) raises curses.error when line y is not on the screen.
AddstrRaises(y, h) == y < 0 \/ y >= h

DrawTableRaises(d, h) ==
    \/ AddstrRaises(0, h)
    \/ \E i \in 1..Len(PySliceTo(d, h - 3)) : AddstrRaises(i, h)
    \/ AddstrRaises(h - 1, h)

\* The page display_detailed_info writes for one snapshot entry on a screen of
\* h lines: the title and either the one error line or the response fields
\* (those the model carries) that fit above the last line.
DetailFields(entry) ==
    <<[line |-> 5, label |-> "Stratum", value |-> Val(entry.stratum)],
      [line |-> 7, label |-> "Root delay", value |-> Val(entry.root_delay)],
      [line |-> 8, label |-> "Root dispersion", value |-> Val(entry.root_dispersion)],
      [line |-> 15, label |-> "Round trip time", value |-> entry.rtt],
      [line |-> 16, label |-> "Offset", value |-> Val(entry.offset)]>>

display_detailed_info(entry, h) ==
    IF entry.response = None
    THEN [title |-> entry.server, error |-> TRUE, fields |-> <<>>]
    ELSE [title |-> entry.server, error |-> FALSE,
          fields |-> SelectSeq(DetailFields(entry), LAMBDA f : f.line < h - 1)]

(***************************************************************************)
(* The view the user is looking at, read off the control position.         *)
(***************************************************************************)
View ==
    CASE pc \in {"help", "help_key"} -> "Help"
      [] pc \in {"detail", "detail_key"} -> "Detail"
      [] OTHER -> "Table"

InFlight == {i \in DOMAIN worker : worker[i] = "running"}

ResultList == [i \in DOMAIN NTP_SERVERS |-> results[i]]

(***************************************************************************)
(* Initial state: module import and the first lines of main.               *)
(***************************************************************************)
Init ==
    /\ NTP_SERVERS = SubSeq(ServerPool, 1, NumServers)
    /\ height = TermHeight
    /\ executor = [max_workers |-> max_workers]
    /\ server_stats = [s \in {ServerPool[i] : i \in 1..NumServers} |-> ServerStats]
    /\ samples = [s \in {ServerPool[i] : i \in 1..NumServers} |-> [m \in Metrics |-> {}]]
    /\ update_calls = [s \in {ServerPool[i] : i \in 1..NumServers} |-> 0]
    /\ pc = "loop"
    /\ data = <<>>
    /\ current_scheme = 0
    /\ selected_row = 0
    /\ c_presses = 0
    /\ key = NoKey
    /\ server_data = None
    /\ worker = [i \in 1..NumServers |-> "idle"]
    /\ frame = [i \in 1..NumServers |-> NoFrame]
    /\ results = [i \in 1..NumServers |-> None]

(***************************************************************************)
(* main: the refresh test at the top of the loop.                          *)
(***************************************************************************)
\* StartPoll that also rebuilds server_stats, forgetting the earlier cycles.
StartPoll_resets_stats ==
    /\ pc = "loop"
    /\ \E elapsed \in BOOLEAN : elapsed \/ data = <<>>
    /\ pc' = "poll"
    /\ worker' = [i \in DOMAIN NTP_SERVERS |-> "queued"]
    /\ results' = [i \in DOMAIN NTP_SERVERS |-> None]
    /\ update_calls' = [s \in DOMAIN update_calls |-> 0]
    /\ server_stats' = [s \in DOMAIN server_stats |-> ServerStats]
    /\ UNCHANGED <<config, samples, data, ui, key, frame>>

\* StartPoll that does not query the servers that failed in the last snapshot.
StartPoll_skips_failed ==
    /\ pc = "loop"
    /\ \E elapsed \in BOOLEAN : elapsed \/ data = <<>>
    /\ pc' = "poll"
    /\ LET failed == {data[k].server : k \in {n \in DOMAIN data : data[n].response = None}}
       IN  /\ worker' = [i \in DOMAIN NTP_SERVERS |->
                            IF NTP_SERVERS[i] \in failed THEN "done" ELSE "queued"]
           /\ results' = [i \in DOMAIN NTP_SERVERS |->
                            IF NTP_SERVERS[i] \in failed
                            THEN FailureResult(NTP_SERVERS[i]) ELSE None]
    /\ update_calls' = [s \in DOMAIN update_calls |-> 0]
    /\ UNCHANGED <<config, server_stats, samples, data, ui, key, frame>>

StartPoll ==
    /\ pc = "loop"
    /\ \E elapsed \in BOOLEAN : elapsed \/ data = <<>>
    /\ pc' = "poll"
    /\ worker' = [i \in DOMAIN NTP_SERVERS |-> "queued"]
    /\ results' = [i \in DOMAIN NTP_SERVERS |-> None]
    /\ update_calls' = [s \in DOMAIN update_calls |-> 0]
    /\ UNCHANGED <<config, server_stats, samples, data, ui, key, frame>>

SkipPoll ==
    /\ pc = "loop"
    /\ \E elapsed \in BOOLEAN : ~(elapsed \/ data = <<>>)
    /\ pc' = "draw"
    /\ UNCHANGED <<config, tracker, data, ui, key, pool>>

(***************************************************************************)
(* get_ntp_data: the thread pool runs query_ntp_server once per server.    *)
(***************************************************************************)
\* A pool that starts a thread for every work item (no max_workers).
StartWorker_unbounded(i) ==
    /\ pc = "poll"
    /\ worker[i] = "queued"
    /\ \A j \in DOMAIN worker : j < i => worker[j] # "queued"
    /\ worker' = [worker EXCEPT ![i] = "running"]
    /\ UNCHANGED <<config, tracker, pc, data, ui, key, results, frame>>

\* A pool thread takes the oldest queued work item; at most max_workers threads.
StartWorker(i) ==
    /\ pc = "poll"
    /\ worker[i] = "queued"
    /\ \A j \in DOMAIN worker : j < i => worker[j] # "queued"
    /\ Cardinality(InFlight) < executor.max_workers
    /\ worker' = [worker EXCEPT ![i] = "running"]
    /\ UNCHANGED <<config, tracker, pc, data, ui, key, results, frame>>

\* QuerySuccess with one ServerStats object shared by all servers.
QuerySuccess_shared_stats(i, rtt, response) ==
    /\ pc = "poll"
    /\ worker[i] = "running"
    /\ LET server == NTP_SERVERS[i]
       IN  /\ server_stats' =
                [s \in DOMAIN server_stats |->
                    update(server_stats[s], rtt, response.offset, response.root_delay,
                           response.root_dispersion, response.stratum)]
           /\ samples' =
                [samples EXCEPT ![server] =
                    [rtt |-> @.rtt \cup {rtt},
                     offset |-> @.offset \cup {response.offset},
                     delay |-> @.delay \cup {response.root_delay},
                     dispersion |-> @.dispersion \cup {response.root_dispersion},
                     stratum |-> @.stratum \cup {response.stratum}]]
           /\ update_calls' = [update_calls EXCEPT ![server] = @ + 1]
           /\ results' = [results EXCEPT ![i] = SuccessResult(server, rtt, response)]
    /\ worker' = [worker EXCEPT ![i] = "done"]
    /\ UNCHANGED <<config, pc, data, ui, key, frame>>

\* QuerySuccess that returns the result tuple without calling update.
QuerySuccess_without_update(i, rtt, response) ==
    /\ pc = "poll"
    /\ worker[i] = "running"
    /\ results' = [results EXCEPT ![i] = SuccessResult(NTP_SERVERS[i], rtt, response)]
    /\ worker' = [worker EXCEPT ![i] = "done"]
    /\ UNCHANGED <<config, tracker, pc, data, ui, key, frame>>

\* The request returned: the stats are widened and the result tuple is built.
QuerySuccess(i, rtt, response) ==
    /\ pc = "poll"
    /\ worker[i] = "running"
    /\ LET server == NTP_SERVERS[i]
       IN  /\ server_stats' =
                [server_stats EXCEPT ![server] =
                    update(@, rtt, response.offset, response.root_delay,
                           response.root_dispersion, response.stratum)]
           /\ samples' =
                [samples EXCEPT ![server] =
                    [rtt |-> @.rtt \cup {rtt},
                     offset |-> @.offset \cup {response.offset},
                     delay |-> @.delay \cup {response.root_delay},
                     dispersion |-> @.dispersion \cup {response.root_dispersion},
                     stratum |-> @.stratum \cup {response.stratum}]]
           /\ update_calls' = [update_calls EXCEPT ![server] = @ + 1]
           /\ results' = [results EXCEPT ![i] = SuccessResult(server, rtt, response)]
    /\ worker' = [worker EXCEPT ![i] = "done"]
    /\ UNCHANGED <<config, pc, data, ui, key, frame>>

\* The request raised (timeout, network error, malformed packet): the except branch.
QueryFailure(i) ==
    /\ pc = "poll"
    /\ worker[i] = "running"
    /\ ~frame[i].active
    /\ results' = [results EXCEPT ![i] = FailureResult(NTP_SERVERS[i])]
    /\ worker' = [worker EXCEPT ![i] = "done"]
    /\ UNCHANGED <<config, tracker, pc, data, ui, key, frame>>

\* get_ntp_data shutting the executor down without waiting: it returns once
\* every request has been started, with the results so far.
get_ntp_data_no_wait ==
    /\ pc = "poll"
    /\ \A i \in DOMAIN worker : worker[i] \in {"running", "done"}
    /\ LET finished == SelectSeq([i \in DOMAIN NTP_SERVERS |-> i],
                                  LAMBDA i : worker[i] = "done")
       IN  data' = sorted([k \in DOMAIN finished |-> results[finished[k]]])
    /\ pc' = "draw"
    /\ UNCHANGED <<config, tracker, ui, key, pool>>

\* get_ntp_data returning as soon as one worker is done, with the results so far.
get_ntp_data_early ==
    /\ pc = "poll"
    /\ \E i \in DOMAIN worker : worker[i] = "done"
    /\ LET finished == SelectSeq([i \in DOMAIN NTP_SERVERS |-> i],
                                  LAMBDA i : worker[i] = "done")
       IN  data' = sorted([k \in DOMAIN finished |-> results[finished[k]]])
    /\ pc' = "draw"
    /\ UNCHANGED <<config, tracker, ui, key, pool>>

\* The with block ends when every worker is done; the sorted list is returned
\* and main stores it in data.
get_ntp_data ==
    /\ pc = "poll"
    /\ \A i \in DOMAIN worker : worker[i] = "done"
    /\ data' = sorted(ResultList)
    /\ pc' = "draw"
    /\ UNCHANGED <<config, tracker, ui, key, pool>>

(***************************************************************************)
(* main: draw the table, read one key, dispatch it.                        *)
(***************************************************************************)
Draw ==
    /\ pc = "draw"
    /\ pc' = IF DrawTableRaises(data, height) THEN "crashed" ELSE "getch"
    /\ UNCHANGED <<config, tracker, data, ui, key, pool>>

Getch(k) ==
    /\ pc = "getch"
    /\ k = "c" => c_presses < MaxPresses
    /\ key' = k
    /\ pc' = "dispatch"
    /\ UNCHANGED <<config, tracker, data, ui, pool>>

\* Where the if/elif chain of main goes next; data[selected_row] of the 'd'
\* branch raises IndexError when the index is out of range.
DispatchPc(k, row, d) ==
    CASE k = "q" -> "done"
      [] k = "h" -> "help"
      [] k = "d" -> IF row + 1 \in DOMAIN d THEN "detail" ELSE "crashed"
      [] OTHER -> "loop"

\* The 'd' branch with the first snapshot entry instead of the selected one.
DetailArgument_first(k, row, d) ==
    IF k = "d" /\ row + 1 \in DOMAIN d THEN Some(d[1]) ELSE None

\* The argument of display_detailed_info in the 'd' branch: data[selected_row].
DetailArgument(k, row, d) ==
    IF k = "d" /\ row + 1 \in DOMAIN d THEN Some(d[row + 1]) ELSE None

\* The 'c' branch without the modulo.
CycleScheme_no_wrap(scheme) == scheme + 1

\* current_scheme after the 'c' branch.
CycleScheme(scheme) == (scheme + 1) % Len(COLOR_SCHEMES)

\* The KEY_DOWN branch guarded by selected_row < len(data).
MoveRow_off_by_one(k, row, d) ==
    CASE k = "UP" /\ row > 0 -> row - 1
      [] k = "DOWN" /\ row < Len(d) -> row + 1
      [] OTHER -> row

\* selected_row after the KEY_UP and KEY_DOWN branches.
MoveRow(k, row, d) ==
    CASE k = "UP" /\ row > 0 -> row - 1
      [] k = "DOWN" /\ row < Len(d) - 1 -> row + 1
      [] OTHER -> row

\* The if/elif chain of main, then time.sleep(0.1).
Dispatch ==
    /\ pc = "dispatch"
    /\ pc' = DispatchPc(key, selected_row, data)
    /\ current_scheme' = IF key = "c" THEN CycleScheme(current_scheme) ELSE current_scheme
    /\ c_presses' = IF key = "c" THEN c_presses + 1 ELSE c_presses
    /\ selected_row' = MoveRow(key, selected_row, data)
    /\ server_data' = DetailArgument(key, selected_row, data)
    /\ key' = NoKey
    /\ UNCHANGED <<config, tracker, data, pool>>

(***************************************************************************)
(* display_help: one getch, whose value is dropped, then return to main.   *)
(***************************************************************************)
HelpGetch(k) ==
    /\ pc = "help"
    /\ key' = k
    /\ pc' = "help_key"
    /\ UNCHANGED <<config, tracker, data, ui, pool>>

\* display_help passing 'q' on to main, which then ends the program.
HelpReturn_q_quits ==
    /\ pc = "help_key"
    /\ pc' = IF key = "q" THEN "done" ELSE "loop"
    /\ key' = NoKey
    /\ UNCHANGED <<config, tracker, data, ui, pool>>

HelpReturn ==
    /\ pc = "help_key"
    /\ pc' = "loop"
    /\ key' = NoKey
    /\ UNCHANGED <<config, tracker, data, ui, pool>>

(***************************************************************************)
(* display_detailed_info: loop on getch until 'q'.                         *)
(***************************************************************************)
\* The detail page running the refresh test of main whenever its getch times out.
DetailGetch_refreshes(k) ==
    /\ pc = "detail"
    /\ key' = k
    /\ pc' = IF k = NoKey THEN "poll" ELSE "detail_key"
    /\ worker' = IF k = NoKey THEN [i \in DOMAIN NTP_SERVERS |-> "queued"] ELSE worker
    /\ results' = IF k = NoKey THEN [i \in DOMAIN NTP_SERVERS |-> None] ELSE results
    /\ UNCHANGED <<config, tracker, data, ui, frame>>

DetailGetch(k) ==
    /\ pc = "detail"
    /\ key' = k
    /\ pc' = "detail_key"
    /\ UNCHANGED <<config, tracker, data, ui, pool>>

\* The detail page handling Up and Down as the table view does.
DetailDispatch_moves_row ==
    /\ pc = "detail_key"
    /\ pc' = IF key = "q" THEN "loop" ELSE "detail"
    /\ selected_row' = MoveRow(key, selected_row, data)
    /\ server_data' = IF key = "q" THEN None ELSE server_data
    /\ key' = NoKey
    /\ UNCHANGED <<config, tracker, data, current_scheme, c_presses, pool>>

\* The detail page closing on any key, like the help page.
DetailDispatch_any_key ==
    /\ pc = "detail_key"
    /\ pc' = IF key # NoKey THEN "loop" ELSE "detail"
    /\ server_data' = IF key # NoKey THEN None ELSE server_data
    /\ key' = NoKey
    /\ UNCHANGED <<config, tracker, data, current_scheme, selected_row, c_presses, pool>>

DetailDispatch ==
    /\ pc = "detail_key"
    /\ pc' = IF key = "q" THEN "loop" ELSE "detail"
    /\ server_data' = IF key = "q" THEN None ELSE server_data
    /\ key' = NoKey
    /\ UNCHANGED <<config, tracker, data, current_scheme, selected_row, c_presses, pool>>

Next ==
    \/ StartPoll
    \/ SkipPoll
    \/ \E i \in DOMAIN NTP_SERVERS : StartWorker(i)
    \/ \E i \in DOMAIN NTP_SERVERS, rtt \in Rtts, response \in Responses :
          QuerySuccess(i, rtt, response)
    \/ \E i \in DOMAIN NTP_SERVERS : QueryFailure(i)
    \/ get_ntp_data
    \/ Draw
    \/ \E k \in Keys \cup {NoKey} : Getch(k)
    \/ Dispatch
    \/ \E k \in Keys \cup {NoKey} : HelpGetch(k)
    \/ HelpReturn
    \/ \E k \in Keys \cup {NoKey} : DetailGetch(k)
    \/ DetailDispatch

Spec == Init /\ [][Next]_vars

(***************************************************************************)
(* ServerStats.update on its own: one ServerStats object and every         *)
(* sequence of at most MaxUpdates calls of update on it.                   *)
(***************************************************************************)
StatRtts == 1..MaxStatRtt

InitStats ==
    /\ NTP_SERVERS = <<ServerPool[1]>>
    /\ height = TermHeight
    /\ executor = [max_workers |-> max_workers]
    /\ server_stats = [s \in {ServerPool[1]} |-> ServerStats]
    /\ samples = [s \in {ServerPool[1]} |-> [m \in Metrics |-> {}]]
    /\ update_calls = [s \in {ServerPool[1]} |-> 0]
    /\ pc = "update"
    /\ data = <<>>
    /\ current_scheme = 0
    /\ selected_row = 0
    /\ c_presses = 0
    /\ key = NoKey
    /\ server_data = None
    /\ worker = [i \in 1..1 |-> "idle"]
    /\ frame = [i \in 1..1 |-> NoFrame]
    /\ results = [i \in 1..1 |-> None]

UpdateCall(rtt, response) ==
    /\ pc = "update"
    /\ LET server == NTP_SERVERS[1]
       IN  /\ update_calls[server] < MaxUpdates
           /\ server_stats' =
                [server_stats EXCEPT ![server] =
                    update(@, rtt, response.offset, response.root_delay,
                           response.root_dispersion, response.stratum)]
           /\ samples' =
                [samples EXCEPT ![server] =
                    [rtt |-> @.rtt \cup {rtt},
                     offset |-> @.offset \cup {response.offset},
                     delay |-> @.delay \cup {response.root_delay},
                     dispersion |-> @.dispersion \cup {response.root_dispersion},
                     stratum |-> @.stratum \cup {response.stratum}]]
           /\ update_calls' = [update_calls EXCEPT ![server] = @ + 1]
    /\ UNCHANGED <<config, pc, data, ui, key, pool>>

NextStats == \E rtt \in StatRtts, response \in Responses : UpdateCall(rtt, response)

SpecStats == InitStats /\ [][NextStats]_vars

(***************************************************************************)
(* get_ntp_data on its own, with more servers than pool threads: one poll  *)
(* cycle of NumPoolServers servers through an executor of PoolThreads      *)
(* threads, the source's fifteen servers and twenty threads scaled down.   *)
(***************************************************************************)
InitPool ==
    /\ NTP_SERVERS = SubSeq(ServerPool, 1, NumPoolServers)
    /\ height = TermHeight
    /\ executor = [max_workers |-> PoolThreads]
    /\ server_stats = [s \in Servers |-> ServerStats]
    /\ samples = [s \in Servers |-> [m \in Metrics |-> {}]]
    /\ update_calls = [s \in Servers |-> 0]
    /\ pc = "loop"
    /\ data = <<>>
    /\ current_scheme = 0
    /\ selected_row = 0
    /\ c_presses = 0
    /\ key = NoKey
    /\ server_data = None
    /\ worker = [i \in 1..NumPoolServers |-> "idle"]
    /\ frame = [i \in 1..NumPoolServers |-> NoFrame]
    /\ results = [i \in 1..NumPoolServers |-> None]

NextPool ==
    \/ StartPoll
    \/ \E i \in DOMAIN NTP_SERVERS : StartWorker(i)
    \/ \E i \in DOMAIN NTP_SERVERS, rtt \in Rtts, response \in Responses :
          QuerySuccess(i, rtt, response)
    \/ \E i \in DOMAIN NTP_SERVERS : QueryFailure(i)
    \/ get_ntp_data

SpecPool == InitPool /\ [][NextPool]_vars

(***************************************************************************)
(* The program with ServerStats.update taken one assignment at a time: a   *)
(* worker whose request returned enters update, assigns the ten attributes *)
(* in the order of the source, and then returns its result tuple.          *)
(***************************************************************************)
\* client.request returned and update is entered (lines 137-143).
RequestReturns(i, rtt, response) ==
    /\ pc = "poll"
    /\ worker[i] = "running"
    /\ ~frame[i].active
    /\ frame' = [frame EXCEPT ![i] = CallFrame(rtt, response)]
    /\ LET server == NTP_SERVERS[i]
       IN  /\ samples' =
                [samples EXCEPT ![server] =
                    [rtt |-> @.rtt \cup {rtt},
                     offset |-> @.offset \cup {response.offset},
                     delay |-> @.delay \cup {response.root_delay},
                     dispersion |-> @.dispersion \cup {response.root_dispersion},
                     stratum |-> @.stratum \cup {response.stratum}]]
           /\ update_calls' = [update_calls EXCEPT ![server] = @ + 1]
    /\ UNCHANGED <<config, server_stats, pc, data, ui, key, worker, results>>

\* One assignment of update: self.<field> = min or max of it and the sample.
WriteField(i) ==
    /\ frame[i].active
    /\ frame[i].written < Len(Fields)
    /\ LET server == NTP_SERVERS[i]
           f == Fields[frame[i].written + 1]
           r == frame[i].response
           after == update(server_stats[server], frame[i].rtt, r.offset, r.root_delay,
                           r.root_dispersion, r.stratum)
       IN  server_stats' = [server_stats EXCEPT ![server][f] = after[f]]
    /\ frame' = [frame EXCEPT ![i].written = @ + 1]
    /\ UNCHANGED <<config, samples, update_calls, pc, data, ui, key, worker, results>>

\* update returned; query_ntp_server returns its result tuple (line 144).
ReturnResult(i) ==
    /\ frame[i].active
    /\ frame[i].written = Len(Fields)
    /\ results' = [results EXCEPT ![i] =
                      SuccessResult(NTP_SERVERS[i], frame[i].rtt, frame[i].response)]
    /\ worker' = [worker EXCEPT ![i] = "done"]
    /\ frame' = [frame EXCEPT ![i] = NoFrame]
    /\ UNCHANGED <<config, tracker, pc, data, ui, key>>

NextRender ==
    \/ StartPoll
    \/ SkipPoll
    \/ \E i \in DOMAIN NTP_SERVERS : StartWorker(i)
    \/ \E i \in DOMAIN NTP_SERVERS, rtt \in Rtts, response \in Responses :
          RequestReturns(i, rtt, response)
    \/ \E i \in DOMAIN NTP_SERVERS : WriteField(i)
    \/ \E i \in DOMAIN NTP_SERVERS : ReturnResult(i)
    \/ \E i \in DOMAIN NTP_SERVERS : QueryFailure(i)
    \/ get_ntp_data
    \/ Draw
    \/ \E k \in {"q", NoKey} : Getch(k)
    \/ Dispatch

SpecRender == Init /\ [][NextRender]_vars

(***************************************************************************)
(* The first poll cycle and the first draw_table on a small terminal:      *)
(* NumSmallServers servers on a screen of 1 to MaxSmallHeight lines.       *)
(***************************************************************************)
InitSmall ==
    /\ NTP_SERVERS = SubSeq(ServerPool, 1, NumSmallServers)
    /\ height \in 1..MaxSmallHeight
    /\ executor = [max_workers |-> max_workers]
    /\ server_stats = [s \in Servers |-> ServerStats]
    /\ samples = [s \in Servers |-> [m \in Metrics |-> {}]]
    /\ update_calls = [s \in Servers |-> 0]
    /\ pc = "loop"
    /\ data = <<>>
    /\ current_scheme = 0
    /\ selected_row = 0
    /\ c_presses = 0
    /\ key = NoKey
    /\ server_data = None
    /\ worker = [i \in 1..NumSmallServers |-> "idle"]
    /\ frame = [i \in 1..NumSmallServers |-> NoFrame]
    /\ results = [i \in 1..NumSmallServers |-> None]

NextSmall ==
    \/ StartPoll
    \/ \E i \in DOMAIN NTP_SERVERS : StartWorker(i)
    \/ \E i \in DOMAIN NTP_SERVERS, rtt \in Rtts, response \in Responses :
          QuerySuccess(i, rtt, response)
    \/ \E i \in DOMAIN NTP_SERVERS : QueryFailure(i)
    \/ get_ntp_data
    \/ Draw

SpecSmall == InitSmall /\ [][NextSmall]_vars

(***************************************************************************)
(* The table and the detail page with NumDetailServers servers: every key  *)
(* of the table view but 'c' and 'h', every key in the detail page, and    *)
(* every request failing or answering with Response(1) after any rtt.      *)
(***************************************************************************)
InitDetail ==
    /\ NTP_SERVERS = SubSeq(ServerPool, 1, NumDetailServers)
    /\ height = TermHeight
    /\ executor = [max_workers |-> max_workers]
    /\ server_stats = [s \in Servers |-> ServerStats]
    /\ samples = [s \in Servers |-> [m \in Metrics |-> {}]]
    /\ update_calls = [s \in Servers |-> 0]
    /\ pc = "loop"
    /\ data = <<>>
    /\ current_scheme = 0
    /\ selected_row = 0
    /\ c_presses = 0
    /\ key = NoKey
    /\ server_data = None
    /\ worker = [i \in 1..NumDetailServers |-> "idle"]
    /\ frame = [i \in 1..NumDetailServers |-> NoFrame]
    /\ results = [i \in 1..NumDetailServers |-> None]

NextDetail ==
    \/ StartPoll
    \/ SkipPoll
    \/ \E i \in DOMAIN NTP_SERVERS : StartWorker(i)
    \/ \E i \in DOMAIN NTP_SERVERS, rtt \in Rtts : QuerySuccess(i, rtt, Response(1))
    \/ \E i \in DOMAIN NTP_SERVERS : QueryFailure(i)
    \/ get_ntp_data
    \/ Draw
    \/ \E k \in {"UP", "DOWN", "d", "q", "x", NoKey} : Getch(k)
    \/ Dispatch
    \/ \E k \in Keys \cup {NoKey} : DetailGetch(k)
    \/ DetailDispatch

SpecDetail == InitDetail /\ [][NextDetail]_vars

(***************************************************************************)
(* Properties.                                                             *)
(***************************************************************************)
\* The stored [min, max] of metric m in a ServerStats record.
StatMin(st, m) ==
    CASE m = "rtt" -> st.rtt_min
      [] m = "offset" -> st.offset_min
      [] m = "delay" -> st.delay_min
      [] m = "dispersion" -> st.dispersion_min
      [] m = "stratum" -> st.stratum_min

StatMax(st, m) ==
    CASE m = "rtt" -> st.rtt_max
      [] m = "offset" -> st.offset_max
      [] m = "delay" -> st.delay_max
      [] m = "dispersion" -> st.dispersion_max
      [] m = "stratum" -> st.stratum_max

SetMin(S) == CHOOSE x \in S : \A y \in S : x <= y
SetMax(S) == CHOOSE x \in S : \A y \in S : x >= y

IsSuccess(entry) == entry.response # None
IsFailure(entry) == entry.response = None

\* C1: for every server, after every sequence of update calls on it, and for
\* each of the five metrics, stored min <= every sample passed so far <= stored
\* max.
C1_BoundsContainSamples ==
    \A s \in Servers : \A m \in Metrics : \A x \in samples[s][m] :
        StatMin(server_stats[s], m) <= x /\ x <= StatMax(server_stats[s], m)

\* C1 witness: four updates were made, with three or more different rtt samples
\* and two different values of every other metric.
C1_Witness ==
    \E s \in Servers :
        /\ update_calls[s] = 4
        /\ Cardinality(samples[s]["rtt"]) >= 3
        /\ \A m \in Metrics : Cardinality(samples[s][m]) >= 2

\* C2 (state part): each metric's stored min is the smallest and its stored max
\* the largest sample seen since process start, and an entry with no sample is
\* the initial sentinel.
StatsExact ==
    \A s \in Servers : \A m \in Metrics :
        IF samples[s][m] = {}
        THEN StatMin(server_stats[s], m) = PosInf /\ StatMax(server_stats[s], m) = NegInf
        ELSE /\ StatMin(server_stats[s], m) = SetMin(samples[s][m])
             /\ StatMax(server_stats[s], m) = SetMax(samples[s][m])

\* C2 (step part): no step of the program raises a stored min, lowers a stored
\* max, removes an entry or forgets a sample.
StatsNeverNarrow ==
    /\ DOMAIN server_stats' = DOMAIN server_stats
    /\ \A s \in DOMAIN server_stats : \A m \in Metrics :
          /\ StatMin(server_stats'[s], m) <= StatMin(server_stats[s], m)
          /\ StatMax(server_stats'[s], m) >= StatMax(server_stats[s], m)
          /\ samples[s][m] \subseteq samples'[s][m]

\* C2: stats bounds are exact and never narrow: after any sequence of updates
\* each min is the smallest and each max the largest sample seen since process
\* start, and no update, failed poll, key press or refresh raises a min, lowers
\* a max or resets or removes an entry.
C2_StatsExactNeverNarrow == []StatsExact /\ [][StatsNeverNarrow]_vars

\* C2 witness: a server with bounds [1, 2] from earlier cycles whose latest poll
\* failed, after a key was read in the table view.
C2_Witness ==
    \E i \in DOMAIN data :
        /\ pc = "dispatch"
        /\ IsFailure(data[i])
        /\ server_stats[data[i].server].rtt_min = 1
        /\ server_stats[data[i].server].rtt_max = 2
        /\ samples[data[i].server]["rtt"] = {1, 2}

\* C3: in every snapshot returned by get_ntp_data, rtt[i] <= rtt[i+1] for all
\* adjacent pairs, every failed entry has rtt = +infinity, and every failed
\* entry comes after every successful entry.
C3_SnapshotOrdered ==
    /\ \A i \in 1..(Len(data) - 1) : data[i].rtt <= data[i + 1].rtt
    /\ \A i \in DOMAIN data : IsFailure(data[i]) => data[i].rtt = PosInf
    /\ \A i, j \in DOMAIN data : IsSuccess(data[i]) /\ IsFailure(data[j]) => i < j

\* C3 witness: a snapshot in which the first server failed and a later server
\* succeeded, so that sorting moved the failed entry behind the successful one.
C3_Witness ==
    /\ pc = "draw"
    /\ Len(data) >= 2
    /\ IsSuccess(data[1])
    /\ IsFailure(data[Len(data)])
    /\ data[Len(data)].server = NTP_SERVERS[1]

\* The snapshot d holds exactly one entry for every configured server.
CompleteSnapshot(d) ==
    /\ Len(d) = Len(NTP_SERVERS)
    /\ \A s \in Servers : Cardinality({j \in DOMAIN d : d[j].server = s}) = 1

\* C4 (state part): the snapshot main holds is empty (before the first cycle) or
\* has exactly one entry per server, and outside a running cycle every worker
\* has finished and the snapshot holds exactly the results of the last cycle.
SnapshotComplete ==
    /\ data # <<>> => CompleteSnapshot(data)
    /\ pc \notin {"loop", "poll"} => data # <<>>
    /\ (pc # "poll" /\ data # <<>>) =>
          /\ \A i \in DOMAIN worker : worker[i] = "done"
          /\ \A i \in DOMAIN NTP_SERVERS : \E j \in DOMAIN data : data[j] = results[i]

\* C4 (step part): the snapshot is replaced only by a step taken when every
\* worker has finished, and it replaces the whole snapshot by the results of
\* that cycle; while workers run, the previous snapshot stays as it was.
SnapshotReplacedWhole ==
    data' # data =>
        /\ pc = "poll" /\ pc' = "draw"
        /\ \A i \in DOMAIN worker : worker[i] = "done"
        /\ CompleteSnapshot(data')
        /\ \A j \in DOMAIN data' : \E i \in DOMAIN NTP_SERVERS : data'[j] = results[i]

\* C4: a poll cycle is atomic for the dashboard: get_ntp_data returns only after
\* every worker has finished, the installed snapshot always has exactly one
\* entry per server, and every render sees the complete previous snapshot or
\* the complete new one.
C4_PollCycleAtomic == []SnapshotComplete /\ [][SnapshotReplacedWhole]_vars

\* C4 witness: a cycle is under way, one worker has delivered a result that
\* differs from the snapshot and another has not finished, and the previous
\* snapshot is still in place.
C4_Witness ==
    /\ pc = "poll"
    /\ data # <<>>
    /\ \E i, k \in DOMAIN worker :
          /\ worker[i] = "done"
          /\ worker[k] # "done"
          /\ \A j \in DOMAIN data : data[j] # results[i]

\* The sentinel tuple of a failed query.
IsSentinel(r) ==
    /\ r.rtt = PosInf
    /\ r.offset = None
    /\ r.ntp_time = None
    /\ r.root_delay = None
    /\ r.root_dispersion = None
    /\ r.stratum = None
    /\ r.response = None

\* Worker i returns from query_ntp_server in this step.
Returns(i) == worker[i] = "running" /\ worker'[i] = "done"

\* C5 (state part): every failed entry of the snapshot is the sentinel tuple, and
\* the program has not died of an exception.
FailuresAreSentinels ==
    /\ \A j \in DOMAIN data : IsFailure(data[j]) => IsSentinel(data[j])
    /\ pc # "crashed"

\* C5 (step part): a query that fails returns the sentinel, leaves the cycle
\* running and the other servers' results and workers as they were; and main
\* ends only on 'q' in the table view.
FailureStaysLocal ==
    /\ \A i \in DOMAIN NTP_SERVERS :
          (Returns(i) /\ IsFailure(results'[i])) =>
              /\ IsSentinel(results'[i])
              /\ results'[i].server = NTP_SERVERS[i]
              /\ pc' = "poll"
              /\ data' = data
              /\ \A k \in DOMAIN NTP_SERVERS \ {i} :
                    results'[k] = results[k] /\ worker'[k] = worker[k]
    /\ (pc' \in {"done", "crashed"} /\ pc' # pc) => (pc = "dispatch" /\ key = "q")

\* C5: any failure of one server's request becomes a sentinel result with rtt =
\* +infinity and every other field null; it does not leave the poll cycle, does
\* not end the main loop, and does not touch the other servers' results.
C5_FailureBecomesSentinel == []FailuresAreSentinels /\ [][FailureStaysLocal]_vars

\* C5 witness: a cycle in which one server failed and another succeeded was
\* installed and drawn, and the main loop is waiting for a key.
C5_Witness ==
    /\ pc = "getch"
    /\ \E i, j \in DOMAIN data : IsFailure(data[i]) /\ IsSuccess(data[j])

\* C6 (state part): in the cycle, update has been called once for a server whose
\* query returned a success and not at all for any other server.
UpdatedOncePerSuccess ==
    /\ \A i \in DOMAIN NTP_SERVERS :
          update_calls[NTP_SERVERS[i]] =
              IF worker[i] = "done" /\ results[i].rtt # PosInf THEN 1 ELSE 0
    /\ pc # "poll" =>
          \A j \in DOMAIN data :
              update_calls[data[j].server] = IF IsSuccess(data[j]) THEN 1 ELSE 0

\* C6 (step part): a failed query leaves all ten stored fields of its server as
\* they were, a returning query changes no other server's stats, and the stats
\* change in no other step.
UpdateFrame ==
    /\ \A i \in DOMAIN NTP_SERVERS :
          Returns(i) =>
              /\ IsFailure(results'[i]) =>
                    server_stats'[NTP_SERVERS[i]] = server_stats[NTP_SERVERS[i]]
              /\ \A s \in Servers \ {NTP_SERVERS[i]} : server_stats'[s] = server_stats[s]
    /\ server_stats' # server_stats =>
          \E i \in DOMAIN NTP_SERVERS : Returns(i) /\ IsSuccess(results'[i])

\* C6: in every poll cycle a server's stats are updated exactly once if and only
\* if its result in the cycle is a success; a failure leaves its ten min/max
\* fields unchanged, and an update for one server never changes another's.
C6_UpdateOnlyOnSuccess == []UpdatedOncePerSuccess /\ [][UpdateFrame]_vars

\* C6 witness: a finished cycle in which one server succeeded and widened its
\* bounds while another, which has bounds from an earlier cycle, failed.
C6_Witness ==
    /\ pc = "draw"
    /\ \E i, j \in DOMAIN data :
          /\ IsSuccess(data[i])
          /\ update_calls[data[i].server] = 1
          /\ server_stats[data[i].server].rtt_min < server_stats[data[i].server].rtt_max
          /\ IsFailure(data[j])
          /\ update_calls[data[j].server] = 0
          /\ server_stats[data[j].server].rtt_min # PosInf

\* A "current (min-max)" column of a table row shows no sentinel, and its bounds
\* contain the current value.
ColumnShowsBounds(col) ==
    /\ col[2] \notin {PosInf, NegInf}
    /\ col[3] \notin {PosInf, NegInf}
    /\ col[2] <= col[1]
    /\ col[1] <= col[3]

\* C7: the empty interval [+infinity, -infinity] is never displayed: a server
\* with no successful sample still holds the initial sentinel, every table row
\* drawn with numeric stats shows non-empty bounds that contain the row's
\* current value in each of the five columns, and the row of a failed result
\* shows only the placeholders.
C7_SentinelNeverDisplayed ==
    /\ \A s \in Servers : samples[s]["rtt"] = {} =>
          /\ \A m \in Metrics : StatMin(server_stats[s], m) = PosInf
          /\ \A m \in Metrics : StatMax(server_stats[s], m) = NegInf
    /\ LET rows == draw_table(data, height, selected_row)
       IN  \A i \in DOMAIN rows :
              IF IsSuccess(data[i])
              THEN /\ rows[i].text = "stats"
                   /\ ColumnShowsBounds(rows[i].rtt)
                   /\ ColumnShowsBounds(rows[i].offset)
                   /\ ColumnShowsBounds(rows[i].delay)
                   /\ ColumnShowsBounds(rows[i].dispersion)
                   /\ ColumnShowsBounds(rows[i].stratum)
              ELSE /\ rows[i].text = "Timeout"
                   /\ DOMAIN rows[i] = {"line", "server", "selected", "text"}

\* C7 witness: the table has been drawn with a numeric row and with the
\* placeholder row of a server that has never been polled successfully.
C7_Witness ==
    /\ pc = "getch"
    /\ LET rows == draw_table(data, height, selected_row)
       IN  \E i, j \in DOMAIN rows :
              /\ rows[i].text = "stats"
              /\ rows[j].text = "Timeout"
              /\ server_stats[rows[j].server] = ServerStats

\* selected_row is an index of the snapshot.
RowInRange == selected_row >= 0 /\ selected_row <= Len(data) - 1

\* C8 (state part): with a non-empty snapshot selected_row is one of its indices,
\* at every render and whenever the detail page is open for it.
SelectedRowValid ==
    /\ data # <<>> => RowInRange
    /\ pc \in {"draw", "detail", "detail_key"} => RowInRange
    /\ pc # "crashed"

\* C8 (step part): Up at row 0 and Down at the last row leave selected_row as it
\* is, 'd' opens the detail page, and a new snapshot leaves the row in range.
SelectedRowClamped ==
    /\ (pc = "dispatch" /\ key = "UP" /\ selected_row = 0) => selected_row' = 0
    /\ (pc = "dispatch" /\ key = "DOWN" /\ selected_row = Len(data) - 1) =>
          selected_row' = selected_row
    /\ (pc = "dispatch" /\ key = "d") => pc' = "detail"
    /\ data' # data => (selected_row' >= 0 /\ selected_row' <= Len(data') - 1)

\* C8: the selected-row index stays in [0, len(snapshot)-1] whenever the
\* snapshot is non-empty: Up at 0 and Down at len-1 leave it unchanged, it is in
\* range at every render after a new snapshot, and the index 'd' uses is valid.
C8_SelectedRowInRange == []SelectedRowValid /\ [][SelectedRowClamped]_vars

\* C8 witness: Down is about to be dispatched with the last row selected, after
\* the selection was moved down from row 0.
C8_Witness ==
    /\ pc = "dispatch"
    /\ key = "DOWN"
    /\ selected_row > 0
    /\ selected_row = Len(data) - 1

\* C9 (state part): after N presses of 'c' from the start index 0 the index is
\* N mod schemeCount, an index of the scheme list.
SchemeIsPressesModCount ==
    /\ current_scheme = c_presses % 5
    /\ current_scheme + 1 \in DOMAIN COLOR_SCHEMES

\* C9 (step part): from any index, a 'c' in the table view moves the index to
\* (index + 1) mod schemeCount, and no other step changes it.
SchemeStep ==
    IF pc = "dispatch" /\ key = "c"
    THEN current_scheme' = (current_scheme + 1) % 5 /\ c_presses' = c_presses + 1
    ELSE current_scheme' = current_scheme /\ c_presses' = c_presses

\* C9: colour-scheme cycling is cyclic: after N presses of 'c' in the table view
\* the index is (start + N) mod schemeCount, always a valid index, and 5 presses
\* bring it back to where it started.
C9_SchemeCyclic == []SchemeIsPressesModCount /\ [][SchemeStep]_vars

\* C9 witness: five presses of 'c' have been dispatched and the index is back at
\* its start value.
C9_Witness == c_presses = 5 /\ current_scheme = 0 /\ pc = "loop"

\* An unrecognized key has been read and is about to be handled.
OtherKeyRead == pc \in {"dispatch", "help_key", "detail_key"} /\ key = "x"

\* C10 as stated: an unrecognized key in the table, help or detail view leaves
\* the view mode, the colour-scheme index, the selected row and the snapshot
\* unchanged.
C10_OtherKeyChangesNothing ==
    [][OtherKeyRead => (View' = View /\ UNCHANGED <<current_scheme, selected_row, data>>)]_vars

\* C10 amended: an unrecognized key leaves the colour-scheme index, the selected
\* row and the snapshot unchanged in every view; it leaves the view unchanged
\* in the table and detail views, and in the help view it closes the help page
\* (as any key does) and returns to the table.
C10_OtherKeyAmended ==
    [][OtherKeyRead =>
          /\ UNCHANGED <<current_scheme, selected_row, data>>
          /\ View' = IF View = "Help" THEN "Table" ELSE View]_vars

\* C10 witness: an unrecognized key was read while the help page was open.
C10_Witness == pc = "help_key" /\ key = "x"

\* C11 as stated: the help view is modal with a blocking wait: once 'h' was
\* pressed in the table view the view stays Help while no key is pressed (a
\* getch that times out with no key does not leave Help), and the view goes
\* back to Table only when a key press arrives.
C11_HelpWaitsForKey ==
    [][(View = "Help" /\ View' # "Help") =>
          (pc = "help_key" /\ key # NoKey /\ View' = "Table")]_vars

\* C12 (step part): the program ends only by 'q' dispatched in the table view;
\* in the detail view 'q' goes back to the table without ending the program and
\* every other key and every getch timeout stays in the detail view; in the help
\* view 'q' goes back to the table without ending the program.
QuitOnlyFromTable ==
    /\ (pc # "done" /\ pc' = "done") => (View = "Table" /\ pc = "dispatch" /\ key = "q")
    /\ (pc = "dispatch" /\ key = "q") => pc' = "done"
    /\ (View = "Detail" /\ View' # "Detail") => (pc = "detail_key" /\ key = "q")
    /\ (pc = "detail_key" /\ key = "q") => (View' = "Table" /\ pc' = "loop")
    /\ (pc = "detail_key" /\ key # "q") => View' = "Detail"
    /\ (pc = "help_key" /\ key = "q") => (View' = "Table" /\ pc' = "loop")

\* C12: 'q' terminates the process only from the table view and that is the
\* only terminal transition; from the detail view 'q' returns to the table
\* without terminating and is the only way out of the detail view; from the help
\* view 'q' returns to the table without terminating.
C12_QuitOnlyFromTable == [](pc # "crashed") /\ [][QuitOnlyFromTable]_vars

\* C12 witness: 'q' was read in the detail view opened on a row other than the
\* first one.
C12_Witness == pc = "detail_key" /\ key = "q" /\ selected_row > 0

\* The help page or the detail page is open.
ModalOpen == View \in {"Help", "Detail"}

\* C13 (step part): a step taken while a modal view is open starts no poll
\* cycle and changes neither the snapshot, the stats nor the worker pool, and a
\* poll cycle starts only from the refresh test at the top of main's loop.
NoRefreshInModal ==
    /\ ModalOpen => (pc' # "poll" /\ UNCHANGED <<data, server_stats, samples, worker, results>>)
    /\ (pc # "poll" /\ pc' = "poll") => (pc = "loop" /\ View = "Table")

\* C13: no poll cycle starts and the snapshot and the stats are not changed
\* while a modal view (Help or Detail) is open, however many getch timeouts
\* pass; a refresh happens only in a loop iteration that begins in the table
\* view.
C13_NoRefreshWhileModal ==
    [](ModalOpen => \A i \in DOMAIN worker : worker[i] \notin {"queued", "running"})
        /\ [][NoRefreshInModal]_vars

\* C13 witness: a getch of the detail page timed out with a snapshot on screen
\* that holds both a success and a failure.
C13_Witness ==
    /\ pc = "detail_key"
    /\ key = NoKey
    /\ \E i, j \in DOMAIN data : IsSuccess(data[i]) /\ IsFailure(data[j])

\* C14 (state part): at no instant of a poll cycle are more than max_workers
\* requests in flight.
InFlightBounded == Cardinality(InFlight) <= executor.max_workers

\* C14 (step part): the cycle ends only when every configured server has been
\* queried, and its snapshot holds one entry for every configured server.
EveryServerQueried ==
    (pc = "poll" /\ pc' # "poll") =>
        /\ \A i \in DOMAIN NTP_SERVERS : worker[i] = "done"
        /\ Len(data') = Len(NTP_SERVERS)
        /\ {data'[k].server : k \in DOMAIN data'} = Servers

\* C14: during a poll cycle the number of server requests in flight never
\* exceeds the worker bound, also for a server list longer than the bound,
\* and every configured server is still queried in the cycle.
C14_InFlightBounded == []InFlightBounded /\ [][EveryServerQueried]_vars

\* C14 witness: every pool thread has a request in flight and two servers are
\* waiting for a free thread.
C14_Witness ==
    /\ Cardinality(InFlight) = executor.max_workers
    /\ Cardinality({i \in DOMAIN worker : worker[i] = "queued"}) >= 2

\* An update of server s has assigned some attributes and not yet all of them.
UpdateInProgress(s) ==
    \E i \in DOMAIN NTP_SERVERS : NTP_SERVERS[i] = s /\ frame[i].active

\* An update of server s has assigned a metric's min and not yet its max.
Torn(s) ==
    \E i \in DOMAIN NTP_SERVERS :
        NTP_SERVERS[i] = s /\ frame[i].active /\ frame[i].written % 2 = 1

\* C15: the render path never observes a torn stats entry: whenever draw_table
\* is about to read the stats (and while the table it drew is on screen) no
\* update call is in progress for any server, so every min/max pair it reads is
\* entirely from before or entirely from after each update; and no two update
\* calls for the same server run at the same time.
C15_NoTornRead ==
    /\ pc \in {"draw", "getch", "dispatch"} => \A s \in Servers : ~UpdateInProgress(s)
    /\ \A s \in Servers :
          Cardinality({i \in DOMAIN NTP_SERVERS : NTP_SERVERS[i] = s /\ frame[i].active}) <= 1
    /\ \A i \in DOMAIN NTP_SERVERS : frame[i].active => (pc = "poll" /\ worker[i] = "running")

\* C15 witness: in a second or later cycle, two workers are inside update at the
\* same time, one of them between a min write and the max write, while the
\* table of the previous snapshot is still held by main.
C15_Witness ==
    /\ pc = "poll"
    /\ data # <<>>
    /\ \E s, u \in Servers : s # u /\ Torn(s) /\ UpdateInProgress(u) /\ ~Torn(u)

\* The screen lines of the data rows draw_table writes for the current snapshot.
RowLines == {i : i \in 1..Len(PySliceTo(data, height - 3))}

\* C16 as stated: drawing the table never fails because the terminal is too
\* small: for every terminal height (1, 2 and 3 lines included) draw_table
\* writes no data row at a line index at or beyond the terminal height and none
\* on the footer line height-1, rows that do not fit are not drawn, and no
\* addstr raises.
C16_SmallTerminalSafe ==
    /\ pc # "crashed"
    /\ pc \in {"draw", "getch"} => \A y \in RowLines : y < height /\ y # height - 1
    /\ pc = "draw" => ~DrawTableRaises(data, height)

\* The position of server s in the configured list.
ListIndex(s) == CHOOSE i \in DOMAIN NTP_SERVERS : NTP_SERVERS[i] = s

\* C17: snapshot sorting is stable with respect to the configured server order,
\* whatever the order in which the workers complete: entries with equal
\* round-trip time, and in particular all failed entries (rtt = +infinity),
\* appear in the snapshot in their server-list order.
C17_SortStable ==
    \A i, j \in DOMAIN data :
        (i < j /\ data[i].rtt = data[j].rtt) =>
            ListIndex(data[i].server) < ListIndex(data[j].server)

\* C17 witness: a snapshot whose first two entries are successes with the same
\* rtt and whose last two entries are failures, the fastest server not being
\* the first of the list.
C17_Witness ==
    /\ Len(data) = 4
    /\ IsSuccess(data[1]) /\ IsSuccess(data[2]) /\ data[1].rtt = data[2].rtt
    /\ IsFailure(data[3]) /\ IsFailure(data[4])
    /\ ListIndex(data[1].server) > ListIndex(data[3].server)

\* How far the request of a list entry has got in the current cycle.
Rank(w) == CASE w = "running" -> 1 [] w = "done" -> 2 [] OTHER -> 0

\* C18 (step part): the start of a cycle queues one request for every
\* configured server, whatever the previous snapshot says about it; within the
\* cycle a request only moves forward, queued -> running -> done, one step at a
\* time, so no server is requested a second time.
OneRequestPerServer ==
    /\ (pc = "loop" /\ pc' = "poll") =>
          /\ DOMAIN worker' = DOMAIN NTP_SERVERS
          /\ \A i \in DOMAIN NTP_SERVERS : worker'[i] = "queued"
    /\ (pc = "poll" /\ pc' = "poll") =>
          \A i \in DOMAIN NTP_SERVERS :
              /\ Rank(worker'[i]) >= Rank(worker[i])
              /\ Rank(worker'[i]) <= Rank(worker[i]) + 1
    /\ (pc = "poll" /\ pc' # "poll") =>
          \A i \in DOMAIN NTP_SERVERS : worker[i] = "done" /\ worker'[i] = "done"

\* C18: every poll cycle issues exactly one request to each configured server:
\* a failed server is not retried within the cycle, and a server that failed in
\* earlier cycles is neither skipped nor delayed, so it is queried again in the
\* next cycle and can appear there as a success.
C18_OneRequestPerCycle ==
    [](pc = "poll" => \A i \in DOMAIN NTP_SERVERS : worker[i] # "idle")
        /\ [][OneRequestPerServer]_vars

\* C18 witness: in the cycle after a snapshot in which a server failed, the
\* request to that server has returned a success.
C18_Witness ==
    /\ pc = "poll"
    /\ \E i \in DOMAIN NTP_SERVERS, k \in DOMAIN data :
          /\ data[k].server = NTP_SERVERS[i]
          /\ IsFailure(data[k])
          /\ worker[i] = "done"
          /\ IsSuccess(results[i])

\* One of the keys main recognizes besides 'q' was read by a modal page.
TableKeyInModal == pc \in {"help_key", "detail_key"} /\ key \in {"c", "h", "d", "UP", "DOWN"}

\* C19: while the view is Help or Detail the keys c, h, d, Up and Down are
\* ignored: none of them changes the colour-scheme index, the selected row or
\* the snapshot, none of them opens another modal view on top of the current
\* one (the detail page stays, the help page stays or gives way to the table),
\* and the key is used up by the page that read it.
C19_TableKeysIgnoredInModal ==
    [][TableKeyInModal =>
          /\ UNCHANGED <<current_scheme, c_presses, selected_row, data>>
          /\ View' \in {View, "Table"}
          /\ View = "Detail" => View' = "Detail"
          /\ key' = NoKey /\ pc' # "dispatch"]_vars

\* C19 witness: Down was read in the detail page of a row that is not the last
\* one, where the table view would have moved the selection.
C19_Witness ==
    /\ pc = "detail_key"
    /\ key = "DOWN"
    /\ selected_row < Len(data) - 1

\* The page on screen while the detail view is open.
DetailPage == display_detailed_info(Val(server_data), height)

\* C20 (state part): while the detail view is open its page is the page of the
\* snapshot entry at selected_row, and it shows the single error line and no
\* response field if and only if that entry is a failed result.
DetailShowsSelected ==
    View = "Detail" =>
        /\ server_data = Some(data[selected_row + 1])
        /\ DetailPage.title = data[selected_row + 1].server
        /\ DetailPage.error <=> IsFailure(data[selected_row + 1])
        /\ DetailPage.error <=> DetailPage.fields = <<>>

\* C20 (step part): 'd' in the table view opens the detail view with
\* data[selected_row] as its argument, the selection staying where it is.
DetailOpensSelected ==
    (pc = "dispatch" /\ key = "d") =>
        /\ View' = "Detail"
        /\ selected_row' = selected_row
        /\ server_data' = Some(data[selected_row + 1])

\* C20: pressing 'd' in the table view opens the detail view for exactly the
\* snapshot entry at the selected row, and the detail view shows the single
\* error line (no response fields) if and only if that entry is a failed result.
C20_DetailOfSelectedRow == []DetailShowsSelected /\ [][DetailOpensSelected]_vars

\* C20 witness: the servers are [a, b, c]; a answered after 2, b timed out and c
\* answered after 1, so the snapshot is [c, a, b]; the selection was moved down
\* twice to b and 'd' shows the error line for b.
C20_Witness ==
    /\ Len(NTP_SERVERS) = 3
    /\ Len(data) = 3
    /\ data[1].server = NTP_SERVERS[3] /\ data[1].rtt = 1
    /\ data[2].server = NTP_SERVERS[1] /\ data[2].rtt = 2
    /\ data[3].server = NTP_SERVERS[2] /\ IsFailure(data[3])
    /\ selected_row = 2
    /\ pc = "detail"
    /\ DetailPage.title = NTP_SERVERS[2]
    /\ DetailPage.error
    /\ DetailPage.fields = <<>>

====
